---- MODULE Spec2Model ----
(***************************************************************************)
(* A model of src/tree.py: the Tree node class (an arena of nodes with     *)
(* parent back-references), its mutations remove_nodes_by_name and         *)
(* binarize, the statistic node_imbalance, the serializer to_newick and    *)
(* the extended-Newick parser (parse_tree, parse_attributes, parse_length, *)
(* parse_value, Tree.from_newick).                                         *)
(*                                                                         *)
(* Python objects are arena entries: a Tree object is an index into the    *)
(* sequence `nodes`, None is the index 0, a list of children is a sequence *)
(* of indices.  A Python string is a sequence of one-character strings.    *)
(* A Python number is a record [m, e, int] standing for m / 10^e, with     *)
(* `int` telling an int from a float (they print differently and compare   *)
(* equal).  The inert field `alignment` is left out.                       *)
(***************************************************************************)
EXTENDS Integers, Sequences, FiniteSets, TLC

VARIABLES
    nodes,    \* the arena: nodes[i] is the Tree object i; the tree's root is object 1
    phase,    \* "build", "ops", "measured", "text", "parsed", or "crashed" (an exception
              \* left the call)
    pre,      \* the arena as it was when the last mutation was called
    lastOp,   \* the last call: [kind, names, ok, wa]
    text,     \* the Newick text at hand (a sequence of characters)
    parsed,   \* the result of the last parse: [ok, h, tree, rest, p_hpd]
    imbalance \* what node_imbalance returned for each node, in iter_descendants order

vars == <<nodes, phase, pre, lastOp, text, parsed, imbalance>>

(***************************************************************************)
(* Bounds of the model.                                                    *)
(***************************************************************************)
MaxNodes == 5

None == 0

(***************************************************************************)
(* Numbers.                                                                *)
(***************************************************************************)
RECURSIVE Normalize(_, _)
Normalize(m, e) ==
    IF e > 0 /\ m % 10 = 0 THEN Normalize(m \div 10, e - 1) ELSE <<m, e>>

RECURSIVE Pow10(_)
Pow10(k) == IF k = 0 THEN 1 ELSE 10 * Pow10(k - 1)

IntNum(n) == [m |-> n, e |-> 0, int |-> TRUE]

FloatNum(m, e) ==
    LET n == Normalize(m, e) IN [m |-> n[1], e |-> n[2], int |-> FALSE]

\* a == b on Python numbers: 0 == 0.0
NumEq(a, b) == a.m = b.m /\ a.e = b.e

\* a + b on Python numbers: int + int is an int, anything else a float
NumAdd(a, b) ==
    LET e == IF a.e > b.e THEN a.e ELSE b.e
        m == a.m * Pow10(e - a.e) + b.m * Pow10(e - b.e)
        n == Normalize(m, e)
    IN  [m |-> n[1], e |-> n[2], int |-> a.int /\ b.int]

(***************************************************************************)
(* Lists.                                                                  *)
(***************************************************************************)
Has(seq, x) == \E i \in DOMAIN seq : seq[i] = x

\* list.index(x), for x in the list
IndexOf(seq, x) == CHOOSE i \in DOMAIN seq : seq[i] = x /\ \A j \in 1..(i - 1) : seq[j] # x

\* list.remove(x), for x in the list: the first occurrence goes
RemoveFirst(seq, x) ==
    LET i == IndexOf(seq, x)
    IN  SubSeq(seq, 1, i - 1) \o SubSeq(seq, i + 1, Len(seq))

(***************************************************************************)
(* Attributes: a dict is a sequence of [k, v] in insertion order.          *)
(***************************************************************************)
AttrHas(attrs, k) == \E i \in DOMAIN attrs : attrs[i].k = k

AttrGet(attrs, k) == attrs[CHOOSE i \in DOMAIN attrs : attrs[i].k = k].v

AttrSet(attrs, k, v) ==
    IF AttrHas(attrs, k)
    THEN [i \in DOMAIN attrs |-> IF attrs[i].k = k THEN [k |-> k, v |-> v] ELSE attrs[i]]
    ELSE Append(attrs, [k |-> k, v |-> v])

LocationKey == <<"l", "o", "c", "a", "t", "i", "o", "n">>

MedianSuffix == <<"_", "m", "e", "d", "i", "a", "n">>

\* Tree.get_location_from_attributes: [ok, loc]; ok is FALSE for the KeyError of a
\* first coordinate present without the second; loc is <<>> for None
get_location_from_attributes(attrs, location_key) ==
    LET k1  == location_key \o <<"1">>
        k2  == location_key \o <<"2">>
        km1 == location_key \o <<"1">> \o MedianSuffix
        km2 == location_key \o <<"2">> \o MedianSuffix
    IN  IF AttrHas(attrs, k1)
        THEN IF AttrHas(attrs, k2)
             THEN [ok |-> TRUE, loc |-> <<AttrGet(attrs, k1), AttrGet(attrs, k2)>>]
             ELSE [ok |-> FALSE, loc |-> <<>>]
        ELSE IF AttrHas(attrs, km1)
        THEN IF AttrHas(attrs, km2)
             THEN [ok |-> TRUE, loc |-> <<AttrGet(attrs, km1), AttrGet(attrs, km2)>>]
             ELSE [ok |-> FALSE, loc |-> <<>>]
        ELSE [ok |-> TRUE, loc |-> <<>>]

\* the property Tree.location: _location, else the attributes' location
location(h, self) ==
    IF h[self].location # <<>>
    THEN [ok |-> TRUE, loc |-> h[self].location]
    ELSE get_location_from_attributes(h[self].attributes, LocationKey)

(***************************************************************************)
(* The Tree class.                                                         *)
(***************************************************************************)
RECURSIVE SetParents(_, _, _)
SetParents(h, kids, p) ==
    IF kids = <<>> THEN h
    ELSE SetParents([h EXCEPT ![Head(kids)].parent = p], Tail(kids), p)

\* Tree.__init__: the new object is Len(h) + 1, and every child's parent is set to it
TreeInit(h, length, name, children, parent, attributes, loc) ==
    LET new == Len(h) + 1
        h1  == Append(h, [name |-> name, length |-> length, children |-> children,
                          parent |-> parent, attributes |-> attributes,
                          location |-> loc])
    IN  SetParents(h1, children, new)

add_child(h, self, child) ==
    [h EXCEPT ![self].children = Append(@, child), ![child].parent = self]

RECURSIVE AddChildren(_, _, _)
AddChildren(h, self, kids) ==
    IF kids = <<>> THEN h
    ELSE AddChildren(add_child(h, self, Head(kids)), self, Tail(kids))

copy_other_node(h, self, other) ==
    LET h1 == [h EXCEPT ![self].name = h[other].name,
                        ![self].length = h[other].length,
                        ![self].parent = h[other].parent,
                        ![self].attributes = h[other].attributes,
                        ![self].location = h[other].location]
        h2 == [h1 EXCEPT ![self].children = <<>>]
    IN  AddChildren(h2, self, h2[other].children)

RECURSIVE tree_size(_, _)
RECURSIVE SizeSum(_, _)
SizeSum(h, kids) ==
    IF kids = <<>> THEN 0 ELSE tree_size(h, Head(kids)) + SizeSum(h, Tail(kids))

tree_size(h, self) == 1 + SizeSum(h, h[self].children)

is_leaf(h, self) == Len(h[self].children) = 0

\* the objects iter_descendants yields from `self`
RECURSIVE Descendants(_, _)
RECURSIVE DescendantsOf(_, _)
DescendantsOf(h, kids) ==
    IF kids = <<>> THEN {} ELSE Descendants(h, Head(kids)) \cup DescendantsOf(h, Tail(kids))

Descendants(h, self) == {self} \cup DescendantsOf(h, h[self].children)

(***************************************************************************)
(* remove_nodes_by_name.  A call's state is [h, ok]: ok turns FALSE when   *)
(* an exception leaves the call (the arena stays as the exception found    *)
(* it).                                                                    *)
(***************************************************************************)
Raise(st) == [st EXCEPT !.ok = FALSE]

RECURSIVE remove_nodes_by_name(_, _, _)
RECURSIVE RemoveLoop(_, _, _, _)

\* a loop body that removes the named children and does not descend
RemoveStepShallow(st, self, c, names) ==
    IF st.h[c].name \in names
    THEN IF Has(st.h[self].children, c)
         THEN [st EXCEPT !.h[self].children = RemoveFirst(@, c)]
         ELSE Raise(st)
    ELSE st

\* the loop's body for the child c
RemoveStep(st, self, c, names) ==
    IF st.h[c].name \in names
    THEN IF Has(st.h[self].children, c)
         THEN [st EXCEPT !.h[self].children = RemoveFirst(@, c)]
         ELSE Raise(st)
    ELSE remove_nodes_by_name(st, c, names)

\* for c in self.children.copy(): kids is what is left of the copy
RemoveLoop(st, self, kids, names) ==
    IF kids = <<>> \/ ~st.ok THEN st
    ELSE RemoveLoop(RemoveStep(st, self, Head(kids), names), self, Tail(kids), names)

\* the clean-up after the loop, for a node that was no leaf
CleanUp(st, self) ==
    LET h    == st.h
        kids == h[self].children
        p    == h[self].parent
    IN  IF Len(kids) = 0
        THEN IF p = None THEN Raise(st)
             ELSE IF ~Has(h[p].children, self) THEN Raise(st)
             ELSE [st EXCEPT !.h[p].children = RemoveFirst(@, self)]
        ELSE IF Len(kids) = 1
        THEN LET c == kids[1]
             IN  IF p = None
                 THEN LET h1 == copy_other_node(h, self, c)
                      IN  [st EXCEPT !.h = [h1 EXCEPT ![c].length =
                                               NumAdd(h1[c].length, h1[self].length)]]
                 ELSE IF ~Has(h[p].children, self) THEN Raise(st)
                 ELSE LET h1 == [h EXCEPT ![p].children[IndexOf(h[p].children, self)] = c]
                      IN  [st EXCEPT !.h = [h1 EXCEPT ![c].length =
                                               NumAdd(h1[c].length, h1[self].length)]]
        ELSE st

remove_nodes_by_name(st, self, names) ==
    LET was_leaf == Len(st.h[self].children) = 0
        st1      == RemoveLoop(st, self, st.h[self].children, names)
    IN  IF ~st1.ok \/ was_leaf THEN st1 ELSE CleanUp(st1, self)

(***************************************************************************)
(* binarize.                                                               *)
(***************************************************************************)
\* the regrouping of a node with more than `threshold` children
RegroupAbove(st, self, threshold) ==
    LET h    == st.h
        kids == h[self].children
        loc  == location(h, self)
    IN  IF Len(kids) > threshold
        THEN IF ~loc.ok THEN Raise(st)
             ELSE LET h1 == TreeInit(h, IntNum(0), <<>>, Tail(kids), self,
                                     h[self].attributes, loc.loc)
                  IN  [st EXCEPT !.h = [h1 EXCEPT ![self].children =
                                           <<Head(kids), Len(h) + 1>>]]
        ELSE st

\* a regrouping that lets three children stand
RegroupLate(st, self) == RegroupAbove(st, self, 3)

\* if len(self.children) > 2: ...
Regroup(st, self) == RegroupAbove(st, self, 2)

RECURSIVE binarize(_, _)
RECURSIVE BinarizeLoop(_, _)
BinarizeLoop(st, kids) ==
    IF kids = <<>> \/ ~st.ok THEN st
    ELSE BinarizeLoop(binarize(st, Head(kids)), Tail(kids))

binarize(st, self) ==
    LET st1 == Regroup(st, self)
    IN  IF ~st1.ok THEN st1 ELSE BinarizeLoop(st1, st1.h[self].children)

(***************************************************************************)
(* node_imbalance returns a quotient, kept as [num, den]; ok is FALSE for  *)
(* the failed assertion on a node with more than 2 children.               *)
(***************************************************************************)
\* np.ceil(size / 2)
CeilHalf(size) == (size + 1) \div 2

node_imbalance(h, self) ==
    LET kids == h[self].children
        size == tree_size(h, self)
    IN  IF Len(kids) > 2 THEN [ok |-> FALSE, node |-> self, num |-> 0, den |-> 1]
        ELSE IF Len(kids) < 2 \/ size < 4
        THEN [ok |-> TRUE, node |-> self, num |-> 0, den |-> 1]
        ELSE LET s1     == tree_size(h, kids[1])
                 s2     == tree_size(h, kids[2])
                 bigger == IF s1 > s2 THEN s1 ELSE s2
                 m      == CeilHalf(size)
             IN  [ok |-> TRUE, node |-> self, num |-> bigger - m, den |-> size - m - 1]

\* iter_descendants: the nodes in depth-first order
RECURSIVE iter_descendants(_, _)
RECURSIVE IterChildren(_, _)
IterChildren(h, kids) ==
    IF kids = <<>> THEN <<>>
    ELSE iter_descendants(h, Head(kids)) \o IterChildren(h, Tail(kids))

iter_descendants(h, self) == <<self>> \o IterChildren(h, h[self].children)

\* tree_imbalance's list [node_imbalance(n) for n in root.iter_descendants()]
node_imbalances(h, root) ==
    LET ns == iter_descendants(h, root)
    IN  [i \in DOMAIN ns |-> node_imbalance(h, ns[i])]

(***************************************************************************)
(* Strings.  Indices are Python's (from 0): s[:n] is Take(s, n), s[n:] is  *)
(* Drop(s, n).                                                             *)
(***************************************************************************)
Take(s, n) == SubSeq(s, 1, n)

Drop(s, n) == SubSeq(s, n + 1, Len(s))

Min(a, b) == IF a < b THEN a ELSE b

StartsWith(s, p) == Len(s) >= Len(p) /\ SubSeq(s, 1, Len(p)) = p

\* src.util.find(s, c): the index of the first c, len(s) when there is none
find(s, c) ==
    IF \E i \in DOMAIN s : s[i] = c
    THEN (CHOOSE i \in DOMAIN s : s[i] = c /\ \A j \in 1..(i - 1) : s[j] # c) - 1
    ELSE Len(s)

\* the index of the last c, -1 when there is none
rfind(s, c) ==
    IF \E i \in DOMAIN s : s[i] = c
    THEN (CHOOSE i \in DOMAIN s : s[i] = c /\ \A j \in (i + 1)..Len(s) : s[j] # c) - 1
    ELSE -1

\* s.partition(c): (before, after); with no c, (s, '')
partition(s, c) == [before |-> Take(s, find(s, c)), after |-> Drop(s, find(s, c) + 1)]

\* s.rpartition(c): (before, after); with no c, ('', s)
rpartition(s, c) ==
    IF rfind(s, c) < 0 THEN [before |-> <<>>, after |-> s]
    ELSE [before |-> Take(s, rfind(s, c)), after |-> Drop(s, rfind(s, c) + 1)]

\* the index of the first place where the pattern p starts in s, -1 when there is none
FindSub(s, p) ==
    LET at == {i \in 1..(Len(s) - Len(p) + 1) : SubSeq(s, i, i + Len(p) - 1) = p}
    IN  IF at = {} THEN -1 ELSE (CHOOSE i \in at : \A j \in at : i <= j) - 1

\* sep.join(ss)
RECURSIVE Join(_, _)
Join(ss, sep) ==
    IF ss = <<>> THEN <<>>
    ELSE IF Len(ss) = 1 THEN ss[1]
    ELSE ss[1] \o sep \o Join(Tail(ss), sep)

UpperCase == <<"A", "B", "C", "D", "E", "F", "G", "H", "I", "J", "K", "L", "M",
               "N", "O", "P", "Q", "R", "S", "T", "U", "V", "W", "X", "Y", "Z">>

LowerCase == <<"a", "b", "c", "d", "e", "f", "g", "h", "i", "j", "k", "l", "m",
               "n", "o", "p", "q", "r", "s", "t", "u", "v", "w", "x", "y", "z">>

\* str.lower()
lower(s) ==
    [i \in DOMAIN s |->
        IF \E j \in DOMAIN UpperCase : UpperCase[j] = s[i]
        THEN LowerCase[CHOOSE j \in DOMAIN UpperCase : UpperCase[j] = s[i]]
        ELSE s[i]]

WhiteSpace == {" ", "\t", "\n", "\r"}

NotWhiteSpace(c) == c \notin WhiteSpace

\* src.util.remove_whitespace(s)
remove_whitespace(s) == SelectSeq(s, NotWhiteSpace)

(***************************************************************************)
(* Numerals: float(s), int(s) and the text of a number, for plain decimal  *)
(* numerals (no sign, no exponent, no inf or nan).                         *)
(***************************************************************************)
Digits == <<"0", "1", "2", "3", "4", "5", "6", "7", "8", "9">>

IsDigit(c) == \E i \in DOMAIN Digits : Digits[i] = c

DigitVal(c) == (CHOOSE i \in DOMAIN Digits : Digits[i] = c) - 1

RECURSIVE DigitsVal(_, _)
DigitsVal(s, acc) ==
    IF s = <<>> THEN acc ELSE DigitsVal(Tail(s), 10 * acc + DigitVal(Head(s)))

RECURSIVE NatStr(_)
NatStr(n) == IF n < 10 THEN <<Digits[n + 1]>> ELSE NatStr(n \div 10) \o <<Digits[(n % 10) + 1]>>

RECURSIVE Zeros(_)
Zeros(k) == IF k <= 0 THEN <<>> ELSE <<"0">> \o Zeros(k - 1)

\* float(s): [ok, val]; ok is FALSE for the ValueError
float(s) ==
    LET dots == {i \in DOMAIN s : s[i] = "."}
        ip   == Take(s, find(s, "."))
        fp   == Drop(s, find(s, ".") + 1)
    IN  IF /\ \A i \in DOMAIN s : IsDigit(s[i]) \/ s[i] = "."
           /\ Cardinality(dots) <= 1
           /\ Len(ip) + Len(fp) >= 1
        THEN [ok |-> TRUE, val |-> FloatNum(DigitsVal(ip \o fp, 0), Len(fp))]
        ELSE [ok |-> FALSE, val |-> FloatNum(0, 0)]

\* int(s): [ok, val]
int(s) ==
    IF s # <<>> /\ \A i \in DOMAIN s : IsDigit(s[i])
    THEN [ok |-> TRUE, val |-> DigitsVal(s, 0)]
    ELSE [ok |-> FALSE, val |-> 0]

\* str(x) of a number: 2 for an int, 2.0 and 1.25 for floats
NumStr(x) ==
    IF x.int THEN NatStr(x.m)
    ELSE LET p  == Pow10(x.e)
             fr == NatStr(x.m % p)
         IN  NatStr(x.m \div p) \o <<".">> \o
                 (IF x.e = 0 THEN <<"0">> ELSE Zeros(x.e - Len(fr)) \o fr)

(***************************************************************************)
(* Attribute values: a float or a string, [num, n, s].                     *)
(***************************************************************************)
NumValue(n) == [num |-> TRUE, n |-> n, s |-> <<>>]

StrValue(s) == [num |-> FALSE, n |-> FloatNum(0, 0), s |-> s]

parse_value(s) == IF float(s).ok THEN NumValue(float(s).val) ELSE StrValue(s)

\* '%s' % v
ValueStr(v) == IF v.num THEN NumStr(v.n) ELSE v.s

(***************************************************************************)
(* to_newick.                                                              *)
(***************************************************************************)
AttrStr(attrs) ==
    <<"[", "&">> \o
    Join([i \in DOMAIN attrs |-> attrs[i].k \o <<"=">> \o ValueStr(attrs[i].v)], <<",">>) \o
    <<"]">>

RECURSIVE to_newick(_, _, _)
to_newick(h, self, write_attributes) ==
    LET kids == h[self].children
        core == IF kids # <<>>
                THEN <<"(">> \o
                     Join([i \in DOMAIN kids |-> to_newick(h, kids[i], write_attributes)],
                          <<",">>) \o
                     <<")">>
                ELSE h[self].name
        attr_str == IF h[self].attributes # <<>> /\ write_attributes
                    THEN AttrStr(h[self].attributes)
                    ELSE <<>>
    IN  core \o attr_str \o <<":">> \o NumStr(h[self].length)

(***************************************************************************)
(* The parser.  A parse returns [ok, ...]: ok is FALSE when an exception   *)
(* (a failed assertion, ValueError, IndexError, KeyError, TypeError)       *)
(* leaves the function.                                                    *)
(***************************************************************************)
RECURSIVE AttrLoop(_, _, _)
\* the while loop of parse_attributes
AttrLoop(attrs, k1, s) ==
    IF find(s, "=") < find(s, "]")
    THEN LET v1_k2 == partition(s, "=").before
             v1    == rpartition(v1_k2, ",").before
             k2    == rpartition(v1_k2, ",").after
         IN  AttrLoop(AttrSet(attrs, k1, parse_value(v1)), k2, partition(s, "=").after)
    ELSE [attrs |-> AttrSet(attrs, k1, parse_value(partition(s, "]").before)),
          rest  |-> partition(s, "]").after]

\* a parse_attributes that skips the '[' alone
parse_attributes_skip_one(s) ==
    IF ~StartsWith(s, <<"[", "&">>) THEN [attrs |-> <<>>, rest |-> s]
    ELSE LET s1 == Drop(s, 1)
         IN  AttrLoop(<<>>, partition(s1, "=").before, partition(s1, "=").after)

parse_attributes(s) ==
    IF ~StartsWith(s, <<"[", "&">>) THEN [attrs |-> <<>>, rest |-> s]
    ELSE LET s1 == Drop(s, 2)
         IN  AttrLoop(<<>>, partition(s1, "=").before, partition(s1, "=").after)

\* a parse_length whose numeral runs up to the next ',' only
parse_length_to_comma(s) ==
    IF StartsWith(s, <<";">>) THEN [ok |-> TRUE, length |-> FloatNum(0, 0), rest |-> s]
    ELSE IF ~StartsWith(s, <<":">>) THEN [ok |-> FALSE, length |-> FloatNum(0, 0), rest |-> s]
    ELSE LET s1  == Drop(s, 1)
             end == find(s1, ",")
             f   == float(Take(s1, end))
         IN  [ok |-> f.ok, length |-> f.val, rest |-> Drop(s1, end)]

parse_length(s) ==
    IF StartsWith(s, <<";">>) THEN [ok |-> TRUE, length |-> FloatNum(0, 0), rest |-> s]
    ELSE IF ~StartsWith(s, <<":">>) THEN [ok |-> FALSE, length |-> FloatNum(0, 0), rest |-> s]
    ELSE LET s1  == Drop(s, 1)
             end == Min(find(s1, ","), find(s1, ")"))
             f   == float(Take(s1, end))
         IN  [ok |-> f.ok, length |-> f.val, rest |-> Drop(s1, end)]

ParseFail(h, s) == [ok |-> FALSE, h |-> h, tree |-> None, rest |-> s]

NameStop(s, with_attributes) ==
    IF with_attributes THEN Min(find(s, "["), find(s, ":")) ELSE find(s, ":")

\* the tail of parse_tree: attributes, length, the constructor, the location
FinishNode(h, s, name, children, location_key, swap_xy, with_attributes) ==
    LET a   == IF with_attributes THEN parse_attributes(s) ELSE [attrs |-> <<>>, rest |-> s]
        l   == parse_length(a.rest)
        new == Len(h) + 1
        h1  == TreeInit(h, l.length, name, children, None, a.attrs, <<>>)
        loc == get_location_from_attributes(a.attrs, location_key)
    IN  IF ~l.ok \/ ~loc.ok THEN ParseFail(h, s)
        ELSE IF swap_xy /\ loc.loc = <<>> THEN ParseFail(h1, s)
        ELSE [ok   |-> TRUE,
              h    |-> [h1 EXCEPT ![new].location =
                           IF swap_xy THEN <<loc.loc[2], loc.loc[1]>> ELSE loc.loc],
              tree |-> new,
              rest |-> l.rest]

RECURSIVE parse_tree(_, _, _, _, _)
RECURSIVE ParseChildren(_, _, _, _, _, _)

\* the while loop of parse_tree: [ok, h, children, rest]
ParseChildren(h, s, children, location_key, swap_xy, with_attributes) ==
    IF StartsWith(s, <<"(">>) \/ StartsWith(s, <<",">>)
    THEN LET r == parse_tree(h, Drop(s, 1), location_key, swap_xy, with_attributes)
         IN  IF ~r.ok THEN [ok |-> FALSE, h |-> r.h, children |-> children, rest |-> r.rest]
             ELSE ParseChildren(r.h, r.rest, Append(children, r.tree),
                                location_key, swap_xy, with_attributes)
    ELSE [ok |-> TRUE, h |-> h, children |-> children, rest |-> s]

\* the head of parse_tree: the children and the name, [ok, h, children, name, rest]
ParseHead(h, s, location_key, swap_xy, with_attributes) ==
    IF StartsWith(s, <<"(">>)
    THEN LET c == ParseChildren(h, s, <<>>, location_key, swap_xy, with_attributes)
             bad == [ok |-> FALSE, h |-> c.h, children |-> c.children, name |-> <<>>,
                     rest |-> c.rest]
         IN  IF ~c.ok \/ ~StartsWith(c.rest, <<")">>) THEN bad
             ELSE LET s1 == Drop(c.rest, 1)
                  IN  IF s1 = <<>> THEN [bad EXCEPT !.rest = s1]
                      ELSE IF s1[1] \notin {":", "[", ")", ";"}
                      THEN LET stop == NameStop(s1, with_attributes)
                           IN  [ok |-> TRUE, h |-> c.h, children |-> c.children,
                                name |-> Take(s1, stop), rest |-> Drop(s1, stop)]
                      ELSE [ok |-> TRUE, h |-> c.h, children |-> c.children,
                            name |-> <<>>, rest |-> s1]
    ELSE LET stop == NameStop(s, with_attributes)
         IN  [ok |-> TRUE, h |-> h, children |-> <<>>,
              name |-> Take(s, stop), rest |-> Drop(s, stop)]

parse_tree(h, s, location_key, swap_xy, with_attributes) ==
    LET hd == ParseHead(h, s, location_key, swap_xy, with_attributes)
    IN  IF ~hd.ok THEN ParseFail(hd.h, hd.rest)
        ELSE FinishNode(hd.h, hd.rest, hd.name, hd.children,
                        location_key, swap_xy, with_attributes)

HpdPattern == <<"%", "h", "p", "d", "_", "1", "=", "{">>

\* Tree.from_newick: [ok, h, tree, rest, p_hpd]; rest is the suffix parse_tree
\* returned, which from_newick drops; p_hpd is -1 when the tree gets none
from_newick(newick0, location_key, swap_xy, with_attributes) ==
    LET newick == lower(remove_whitespace(newick0))
        at     == FindSub(newick, HpdPattern)
        p_str  == rpartition(Take(newick, at), "_").after
        r      == parse_tree(<<>>, newick, location_key, swap_xy, with_attributes)
        bad    == [ok |-> FALSE, h |-> <<>>, tree |-> None, rest |-> newick, p_hpd |-> -1]
    IN  IF at >= 0 /\ (Len(p_str) \notin {1, 2} \/ ~int(p_str).ok) THEN bad
        ELSE [ok |-> r.ok, h |-> r.h, tree |-> r.tree, rest |-> r.rest,
              p_hpd |-> IF at >= 0 THEN int(p_str).val ELSE -1]

(***************************************************************************)
(* The tree program: a tree is built with the constructor and add_child,   *)
(* then remove_nodes_by_name and binarize are called on its root.          *)
(***************************************************************************)
Names == {<<"a">>, <<"b">>}

Lengths == {FloatNum(1, 0), FloatNum(2, 0)}

Root == 1

NoOp == [kind |-> "none", names |-> {}, ok |-> TRUE, wa |-> FALSE]

NoParse == [ok |-> TRUE, h |-> <<>>, tree |-> None, rest |-> <<>>, p_hpd |-> -1]

Init ==
    /\ \E nm \in Names, ln \in Lengths :
           nodes = TreeInit(<<>>, ln, nm, <<>>, None, <<>>, <<>>)
    /\ phase = "build"
    /\ pre = <<>>
    /\ lastOp = NoOp
    /\ text = <<>>
    /\ parsed = NoParse
    /\ imbalance = <<>>

\* the last object made and its ancestors
RECURSIVE Spine(_, _)
Spine(h, n) == IF n = None THEN {} ELSE {n} \cup Spine(h, h[n].parent)

\* p.add_child(Tree(ln, name=nm)); the tree is built in depth-first order (p is the
\* last node added or one of its ancestors), so each ordered tree is built once
AddChild ==
    /\ phase = "build"
    /\ Len(nodes) < MaxNodes
    /\ \E p \in Spine(nodes, Len(nodes)), nm \in Names, ln \in Lengths :
           nodes' = add_child(TreeInit(nodes, ln, nm, <<>>, None, <<>>, <<>>),
                              p, Len(nodes) + 1)
    /\ UNCHANGED <<phase, pre, lastOp, text, parsed, imbalance>>

\* root.remove_nodes_by_name(names)
RemoveNodesByName ==
    /\ phase \in {"build", "ops"}
    /\ \E names \in (SUBSET Names) \ {{}} :
           LET st == remove_nodes_by_name([h |-> nodes, ok |-> TRUE], Root, names)
           IN  /\ nodes' = st.h
               /\ lastOp' = [kind |-> "remove", names |-> names, ok |-> st.ok, wa |-> FALSE]
               /\ phase' = IF st.ok THEN "ops" ELSE "crashed"
    /\ pre' = nodes
    /\ UNCHANGED <<text, parsed, imbalance>>

\* root.binarize()
Binarize ==
    /\ phase \in {"build", "ops"}
    /\ LET st == binarize([h |-> nodes, ok |-> TRUE], Root)
       IN  /\ nodes' = st.h
           /\ lastOp' = [kind |-> "binarize", names |-> {}, ok |-> st.ok, wa |-> FALSE]
           /\ phase' = IF st.ok THEN "ops" ELSE "crashed"
    /\ pre' = nodes
    /\ UNCHANGED <<text, parsed, imbalance>>

\* tree_imbalance(root), on the tree as built
TreeImbalance ==
    /\ phase = "build"
    /\ imbalance' = node_imbalances(nodes, Root)
    /\ phase' = IF \A i \in DOMAIN imbalance' : imbalance'[i].ok THEN "measured" ELSE "crashed"
    /\ UNCHANGED <<nodes, pre, lastOp, text, parsed>>

Next == AddChild \/ RemoveNodesByName \/ Binarize \/ TreeImbalance

Spec == Init /\ [][Next]_vars

(***************************************************************************)
(* The pruning program: a tree whose inner nodes below the root all have   *)
(* two children or more is built, then remove_nodes_by_name is called on   *)
(* its root, again and again.                                              *)
(***************************************************************************)
MaxPruneNodes == 7

PruneNames == {<<"a">>, <<"b">>, <<"c">>}

\* no node below the root has exactly one child
WellBranched(h) == \A x \in Descendants(h, Root) \ {Root} : Len(h[x].children) # 1

\* Tree(1.)
PruneInit ==
    /\ nodes = TreeInit(<<>>, FloatNum(1, 0), <<>>, <<>>, None, <<>>, <<>>)
    /\ phase = "build"
    /\ pre = <<>>
    /\ lastOp = NoOp
    /\ text = <<>>
    /\ parsed = NoParse
    /\ imbalance = <<>>

\* p.add_child(Tree(1., name=nm)), in depth-first order; the nodes between the last
\* node and p get no more children, so they have two or more by now
PruneAddChild ==
    /\ phase = "build"
    /\ Len(nodes) < MaxPruneNodes
    /\ \E p \in Spine(nodes, Len(nodes)), nm \in PruneNames :
           /\ \A x \in Spine(nodes, Len(nodes)) \ Spine(nodes, p) :
                  Len(nodes[x].children) # 1
           /\ nodes' = add_child(TreeInit(nodes, FloatNum(1, 0), nm, <<>>, None, <<>>, <<>>),
                                 p, Len(nodes) + 1)
    /\ UNCHANGED <<phase, pre, lastOp, text, parsed, imbalance>>

\* root.remove_nodes_by_name(names), the first call on a well-branched tree
PruneRemove ==
    /\ phase \in {"build", "ops"}
    /\ phase = "build" => WellBranched(nodes)
    /\ \E names \in (SUBSET PruneNames) \ {{}} :
           LET st == remove_nodes_by_name([h |-> nodes, ok |-> TRUE], Root, names)
           IN  /\ nodes' = st.h
               /\ lastOp' = [kind |-> "remove", names |-> names, ok |-> st.ok, wa |-> FALSE]
               /\ phase' = IF st.ok THEN "ops" ELSE "crashed"
    /\ pre' = nodes
    /\ UNCHANGED <<text, parsed, imbalance>>

PruneNext == PruneAddChild \/ PruneRemove

PruneSpec == PruneInit /\ [][PruneNext]_vars

(***************************************************************************)
(* The Newick program: a tree is built and written with to_newick, and the *)
(* text is parsed with parse_tree or Tree.from_newick; or a given text is  *)
(* parsed with Tree.from_newick.                                           *)
(***************************************************************************)
MaxNewickNodes == 3

NameKey == <<"n", "a", "m", "e">>

\* what a node of the written tree is made of
NewickLabels ==
    {[name |-> <<"a">>, length |-> FloatNum(12, 1),
      attributes |-> <<[k |-> <<"x">>, v |-> NumValue(FloatNum(15, 1))]>>],
     [name |-> <<"B">>, length |-> IntNum(2),
      attributes |-> <<[k |-> NameKey, v |-> StrValue(<<"b">>)]>>],
     [name |-> <<>>, length |-> FloatNum(0, 0), attributes |-> <<>>],
     [name |-> <<"e", ",">>, length |-> FloatNum(25, 2), attributes |-> <<>>],
     [name |-> <<"c", ":">>, length |-> FloatNum(5, 1), attributes |-> <<>>],
     [name |-> <<"f", "[">>, length |-> FloatNum(3, 0), attributes |-> <<>>],
     [name |-> <<"(", "d">>, length |-> FloatNum(1, 0), attributes |-> <<>>],
     [name |-> <<"g">>, length |-> FloatNum(1, 0),
      attributes |-> <<[k |-> LocationKey \o <<"1">>, v |-> NumValue(FloatNum(1, 0))],
                       [k |-> LocationKey \o <<"2">>, v |-> NumValue(FloatNum(2, 0))]>>],
     [name |-> <<"h">>, length |-> FloatNum(2, 0),
      attributes |-> <<[k |-> LocationKey \o <<"1">> \o MedianSuffix,
                        v |-> NumValue(FloatNum(3, 0))],
                       [k |-> LocationKey \o <<"2">> \o MedianSuffix,
                        v |-> NumValue(FloatNum(4, 0))]>>]}

\* test_newick's input
TestNewickText ==
    <<"\t", "(", "A", "[", "&", "n", "a", "m", "e", " ", "=", " ", "a", "]", ":", "1",
      ".", "2", ",", " ", "(", "B", "[", "&", "n", "a", "m", "e", "=", "b", "]", ":",
      "3", ".", "4", ",", "C", "[", "&", "t", "m", "p", "=", "x", ",", " ", "n", "a",
      "m", "e", "=", "c", "]", ":", "5", ".", "6", ")", "[", "&", "n", "a", "m", "e",
      "=", "i", "n", "t", "e", "r", "n", "a", "l", "]", ":", "7", ".", "8", ")", "[",
      "&", "n", "a", "m", "e", "=", "r", "o", "o", "t", "]", ";", "\n">>

\* two trees and a terminator: 'a:1,b:2;'
TwoTreesText ==
    <<"a", ":", "1", ",", "b", ":", "2", ";">>

\* '(a:1,b:2);'
PlainText ==
    <<"(", "a", ":", "1", ",", "b", ":", "2", ")", ";">>

\* a root with a length before the terminator: '(a:1,b:2):0.5;'
RootLengthText ==
    <<"(", "a", ":", "1", ",", "b", ":", "2", ")", ":", "0", ".", "5", ";">>

\* a text with an HPD marker
HpdText ==
    <<"(", "a", "[", "&", "l", "o", "c", "a", "t", "i", "o", "n", "1", "_", "8", "0",
      "%", "h", "p", "d", "_", "1", "=", "{", "1", ",", "2", "}", "]", ":", "1", ",",
      "b", ":", "2", ")", ";">>

GivenTexts == {TestNewickText, TwoTreesText, PlainText, RootLengthText, HpdText}

NewickInit ==
    /\ \/ /\ \E l \in NewickLabels :
                 nodes = TreeInit(<<>>, l.length, l.name, <<>>, None, l.attributes, <<>>)
          /\ phase = "build"
          /\ text = <<>>
       \/ /\ nodes = <<>>
          /\ phase = "given"
          /\ text \in GivenTexts
    /\ pre = <<>>
    /\ lastOp = NoOp
    /\ parsed = NoParse
    /\ imbalance = <<>>

\* p.add_child(Tree(length, name=name, attributes=attributes)), in depth-first order
NewickAddChild ==
    /\ phase = "build"
    /\ Len(nodes) < MaxNewickNodes
    /\ \E p \in Spine(nodes, Len(nodes)), l \in NewickLabels :
           nodes' = add_child(TreeInit(nodes, l.length, l.name, <<>>, None,
                                       l.attributes, <<>>),
                              p, Len(nodes) + 1)
    /\ UNCHANGED <<phase, pre, lastOp, text, parsed, imbalance>>

\* text = root.to_newick(write_attributes=wa)
ToNewick ==
    /\ phase = "build"
    /\ \E wa \in BOOLEAN :
           /\ text' = to_newick(nodes, Root, wa)
           /\ lastOp' = [kind |-> "to_newick", names |-> {}, ok |-> TRUE, wa |-> wa]
    /\ phase' = "text"
    /\ UNCHANGED <<nodes, pre, parsed, imbalance>>

\* tree, rest = parse_tree(text) and tree, rest = parse_tree(text, swap_xy=True);
\* the call's kind tells the one from the other
ParseTree ==
    /\ phase = "text"
    /\ \E swap_xy \in BOOLEAN :
           LET r == parse_tree(<<>>, text, LocationKey, swap_xy, TRUE)
           IN  /\ parsed' = [ok |-> r.ok, h |-> r.h, tree |-> r.tree, rest |-> r.rest,
                             p_hpd |-> -1]
               /\ lastOp' = [lastOp EXCEPT
                                 !.kind = IF swap_xy THEN "parse_tree_swap_xy"
                                                     ELSE "parse_tree",
                                 !.ok = r.ok]
    /\ phase' = "parsed"
    /\ UNCHANGED <<nodes, pre, text, imbalance>>

\* tree = Tree.from_newick(text)
FromNewick ==
    /\ phase \in {"text", "given"}
    /\ LET r == from_newick(text, LocationKey, FALSE, TRUE)
       IN  /\ parsed' = r
           /\ lastOp' = [lastOp EXCEPT !.kind = "from_newick", !.ok = r.ok]
    /\ phase' = "parsed"
    /\ UNCHANGED <<nodes, pre, text, imbalance>>

NewickNext == NewickAddChild \/ ToNewick \/ ParseTree \/ FromNewick

NewickSpec == NewickInit /\ [][NewickNext]_vars

(***************************************************************************)
(* The component parsers: parse_length and parse_attributes are applied to *)
(* a given text.  The texts are put together from numerals, keys, values   *)
(* and rests, each numeral and value with what it stands for.              *)
(***************************************************************************)
MaxPairs == 2

Numerals ==
    {[s |-> <<"3", ".", "1", "4">>, v |-> FloatNum(314, 2)],
     [s |-> <<"1">>, v |-> FloatNum(1, 0)],
     [s |-> <<"0", ".", "5">>, v |-> FloatNum(5, 1)],
     [s |-> <<"1", "0">>, v |-> FloatNum(10, 0)],
     [s |-> <<"2", ".">>, v |-> FloatNum(2, 0)],
     [s |-> <<".", "5">>, v |-> FloatNum(5, 1)]}

\* what follows a length: ')[&a=1,b=2];' is test_parse_length's
LengthRests ==
    {<<")", "[", "&", "a", "=", "1", ",", "b", "=", "2", "]", ";">>,
     <<",", "b", ":", "2", ")", ";">>,
     <<")">>,
     <<",">>}

\* ':' + numeral + rest, with what parse_length is to return
LengthCases ==
    {[text |-> <<":">> \o n.s \o r, length |-> n.v, rest |-> r] :
         n \in Numerals, r \in LengthRests}

PlainKeys == {<<"a">>, <<"b">>}

\* keys with a ',' or a ']' in them
Keys == PlainKeys \cup {<<"c", ",", "d">>, <<"e", "]">>}

\* a numeral, another numeral and a word
Values ==
    {[s |-> <<"1">>, v |-> NumValue(FloatNum(1, 0))],
     [s |-> <<"2">>, v |-> NumValue(FloatNum(2, 0))],
     [s |-> <<"x">>, v |-> StrValue(<<"x">>)]}

\* what follows an attribute block: ';' is test_parse_attributes's
AttrRests ==
    {<<";">>,
     <<":", "1", ",", "b", "[", "&", "a", "=", "1", "]", ":", "2", ")">>}

\* the lists of 1 to MaxPairs pairs with distinct keys
PairLists ==
    {ps \in UNION {[1..n -> [k : Keys, v : Values]] : n \in 1..MaxPairs} :
         \A i, j \in DOMAIN ps : ps[i].k = ps[j].k => i = j}

\* '[&k1=v1,...,kn=vn]'
AttrBlock(ps) ==
    <<"[", "&">> \o Join([i \in DOMAIN ps |-> ps[i].k \o <<"=">> \o ps[i].v.s], <<",">>) \o
    <<"]">>

\* '[&k1=v1,...,kn=vn]' + rest, with what parse_attributes is to return
AttrCases ==
    {[text  |-> AttrBlock(ps) \o r,
      keys  |-> {ps[i].k : i \in DOMAIN ps},
      attrs |-> {[k |-> ps[i].k, v |-> ps[i].v.v] : i \in DOMAIN ps},
      rest  |-> r] : ps \in PairLists, r \in AttrRests}

\* texts that are neither: a numeral that runs to the end or into ';', no numeral,
\* a text that begins with ';', the empty text, other starts
OtherTexts ==
    {<<":", "1">>,
     <<":", "1", ";">>,
     <<":", "x", ",">>,
     <<":">>,
     <<";">>,
     <<";", "x">>,
     <<>>,
     <<"a", ":", "1">>,
     <<"1", ".", "5", ",">>,
     <<")">>,
     <<"(", "a", ":", "1", ")">>}

ParseTexts ==
    {c.text : c \in LengthCases} \cup {c.text : c \in AttrCases} \cup OtherTexts

ParseInit ==
    /\ nodes = <<>>
    /\ phase = "given"
    /\ text \in ParseTexts
    /\ pre = <<>>
    /\ lastOp = NoOp
    /\ parsed = NoParse
    /\ imbalance = <<>>

\* length, rest = parse_length(text)
ParseLength ==
    /\ phase = "given"
    /\ LET r == parse_length(text)
       IN  /\ parsed' = [ok |-> r.ok, length |-> r.length, attrs |-> <<>>, rest |-> r.rest]
           /\ lastOp' = [lastOp EXCEPT !.kind = "parse_length", !.ok = r.ok]
    /\ phase' = "parsed"
    /\ UNCHANGED <<nodes, pre, text, imbalance>>

\* attrs, rest = parse_attributes(text)
ParseAttributes ==
    /\ phase = "given"
    /\ LET r == parse_attributes(text)
       IN  /\ parsed' = [ok |-> TRUE, length |-> FloatNum(0, 0), attrs |-> r.attrs,
                         rest |-> r.rest]
           /\ lastOp' = [lastOp EXCEPT !.kind = "parse_attributes", !.ok = TRUE]
    /\ phase' = "parsed"
    /\ UNCHANGED <<nodes, pre, text, imbalance>>

ParseNext == ParseLength \/ ParseAttributes

ParseSpec == ParseInit /\ [][ParseNext]_vars

(***************************************************************************)
(* What the claims speak of.                                               *)
(***************************************************************************)
Reachable(h) == Descendants(h, Root)

Returned == phase \in {"build", "ops"}

AfterRemove == lastOp.kind = "remove" /\ lastOp.ok

AfterBinarize == lastOp.kind = "binarize" /\ lastOp.ok

\* following parent pointers from n reaches an object with no parent, which is `top`,
\* within `fuel` steps
RECURSIVE EndsAt(_, _, _, _)
EndsAt(h, n, top, fuel) ==
    IF h[n].parent = None THEN n = top
    ELSE IF fuel = 0 THEN FALSE
    ELSE EndsAt(h, h[n].parent, top, fuel - 1)

\* the tree from `self` down, as a value: names, lengths, child order
RECURSIVE View(_, _)
View(h, self) ==
    [name     |-> h[self].name,
     length   |-> [m |-> h[self].length.m, e |-> h[self].length.e],
     children |-> [i \in DOMAIN h[self].children |-> View(h, h[self].children[i])]]

\* the leaves from `self` down in child order, each with its name and the sum of the
\* lengths from the top of the tree to it (`above` is the sum down to self's parent)
RECURSIVE LeafPaths(_, _, _)
RECURSIVE LeafPathsOf(_, _, _)
LeafPathsOf(h, kids, above) ==
    IF kids = <<>> THEN <<>>
    ELSE LeafPaths(h, Head(kids), above) \o LeafPathsOf(h, Tail(kids), above)

LeafPaths(h, self, above) ==
    LET sum == NumAdd(above, h[self].length)
    IN  IF is_leaf(h, self)
        THEN <<[name |-> h[self].name, m |-> sum.m, e |-> sum.e]>>
        ELSE LeafPathsOf(h, h[self].children, sum)

RECURSIVE Without(_, _)
Without(paths, n) ==
    IF paths = <<>> THEN <<>>
    ELSE IF Head(paths).name = n THEN Without(Tail(paths), n)
    ELSE <<Head(paths)>> \o Without(Tail(paths), n)

LeafNamed(h, n) == \E x \in Reachable(h) : is_leaf(h, x) /\ h[x].name = n

\* n names leaves only
OnlyLeavesNamed(h, n) ==
    /\ LeafNamed(h, n)
    /\ \A x \in Reachable(h) : h[x].name = n => is_leaf(h, x)

AllBinary(h) == \A x \in Reachable(h) : Len(h[x].children) <= 2

\* a node binarize made: Tree(0, ...) with the default name
Synthetic(h, x) == h[x].name = <<>> /\ h[x].length = IntNum(0)

(***************************************************************************)
(* The claims.                                                             *)
(***************************************************************************)
\* C1: after any sequence of remove_nodes_by_name and binarize calls that return
\* normally, every child c in the children list of a node n reachable from the root
\* has c.parent == n.
C1_ParentChildConsistent ==
    Returned =>
        \A n \in Reachable(nodes) :
            \A i \in DOMAIN nodes[n].children : nodes[nodes[n].children[i]].parent = n

\* C2: after remove_nodes_by_name returns normally on the root, the root has no
\* parent, it is the only node of the tree without one, and following parent
\* pointers from any reachable node ends at the root.
C2_StaysRooted ==
    AfterRemove =>
        /\ nodes[Root].parent = None
        /\ \A n \in Reachable(nodes) \ {Root} : nodes[n].parent # None
        /\ \A n \in Reachable(nodes) : EndsAt(nodes, n, Root, Len(nodes))

\* C3, as claimed: after root.remove_nodes_by_name({n}) returns normally, n the name
\* of a leaf, no node named n is reachable from the root.
C3_NoNodeNamed ==
    \A n \in Names :
        (AfterRemove /\ lastOp.names = {n} /\ LeafNamed(pre, n)) =>
            \A x \in Reachable(nodes) : nodes[x].name # n

\* C3, amended: after root.remove_nodes_by_name({n}) returns normally, n the name of
\* a leaf, no node below the root is named n (the root itself is never removed).
C3_NoDescendantNamed ==
    \A n \in Names :
        (AfterRemove /\ lastOp.names = {n} /\ LeafNamed(pre, n)) =>
            \A x \in Reachable(nodes) \ {Root} : nodes[x].name # n

\* C3's case: a leaf named n two levels below the root was removed, and the root
\* kept two children or more
C3_Witness ==
    \E n \in Names :
        /\ AfterRemove /\ lastOp.names = {n}
        /\ \E x \in Reachable(pre) :
               /\ is_leaf(pre, x) /\ pre[x].name = n
               /\ pre[x].parent # Root /\ pre[x].parent # None
               /\ x \notin Reachable(nodes)
        /\ Len(nodes[Root].children) >= 2

\* C4: after remove_nodes_by_name({n}), n naming leaves, every other original leaf
\* is still there, in order, and the sum of the lengths from the top of the tree to
\* it is what it was before the call.
C4_LeavesAndLengthsKept ==
    \A n \in Names :
        (AfterRemove /\ lastOp.names = {n} /\ OnlyLeavesNamed(pre, n)) =>
            Without(LeafPaths(nodes, Root, IntNum(0)), n) =
                Without(LeafPaths(pre, Root, IntNum(0)), n)

\* C5: after binarize() returns, every node reachable from the root has at most 2
\* children, and binarize on a tree whose nodes all have at most 2 children (so a
\* second binarize) leaves shape, child order, names and lengths as they were.
C5_BinarizeIdempotent ==
    AfterBinarize =>
        /\ AllBinary(nodes)
        /\ AllBinary(pre) => View(nodes, Root) = View(pre, Root)

\* C5's case: binarize was called on a tree an earlier binarize had regrouped
C5_Witness ==
    /\ AfterBinarize
    /\ AllBinary(pre)
    /\ \E x \in Reachable(pre) : Synthetic(pre, x) /\ Len(pre[x].children) = 2

\* C6: for every node with exactly 2 children and tree_size >= 4, node_imbalance is
\* (bigger - m) / (size - m - 1) with 0 <= bigger - m <= size - m - 1 and
\* size - m - 1 >= 1.
C6_ImbalanceInUnitInterval ==
    \A i \in DOMAIN imbalance :
        LET r == imbalance[i]
        IN  (/\ r.ok
             /\ Len(nodes[r.node].children) = 2
             /\ tree_size(nodes, r.node) >= 4) =>
                (0 <= r.num /\ r.num <= r.den /\ r.den >= 1)

\* the tree from `self` down as the round trip compares it: child counts, child
\* order and lengths
RECURSIVE Shape(_, _)
Shape(h, self) ==
    [length   |-> [m |-> h[self].length.m, e |-> h[self].length.e],
     children |-> [i \in DOMAIN h[self].children |-> Shape(h, h[self].children[i])]]

\* no leaf's name holds ':' or '[' or begins with '('
PlainLeafNames(h) ==
    \A x \in Reachable(h) :
        is_leaf(h, x) =>
            /\ \A i \in DOMAIN h[x].name : h[x].name[i] \notin {":", "["}
            /\ ~StartsWith(h[x].name, <<"(">>)

RoundTripped == phase = "parsed" /\ lastOp.kind = "parse_tree" /\ ~lastOp.wa

SameShapeNoAttributes ==
    /\ parsed.ok
    /\ Shape(parsed.h, parsed.tree) = Shape(nodes, Root)
    /\ \A x \in Descendants(parsed.h, parsed.tree) : parsed.h[x].attributes = <<>>

\* C7, as claimed: for any tree built programmatically, parsing the text of
\* to_newick(write_attributes=False) yields the same topology, the same length at
\* every node and empty attributes at every node.
C7_RoundTrip == RoundTripped => SameShapeNoAttributes

\* C7, amended: the same, for any tree none of whose leaf names holds ':' or '[' or
\* begins with '(', parsed with parse_tree.
C7_RoundTripPlainNames == (RoundTripped /\ PlainLeafNames(nodes)) => SameShapeNoAttributes

\* C7's case: a tree of three nodes whose root has attributes and one of whose
\* leaves has a ',' in its name was written without attributes and parsed back
C7_Witness ==
    /\ RoundTripped /\ PlainLeafNames(nodes) /\ parsed.ok
    /\ Len(nodes) = 3
    /\ nodes[Root].attributes # <<>>
    /\ \E x \in Reachable(nodes) : is_leaf(nodes, x) /\ Has(nodes[x].name, ",")

\* the rendering C8 describes: an internal node is '(' children ')' name attrs ':'
\* length, a leaf is name attrs ':' length
RECURSIVE Rendering(_, _, _)
Rendering(h, self, write_attributes) ==
    LET kids == h[self].children
        core == IF kids # <<>>
                THEN <<"(">> \o
                     Join([i \in DOMAIN kids |-> Rendering(h, kids[i], write_attributes)],
                          <<",">>) \o
                     <<")">> \o h[self].name
                ELSE h[self].name
        attr_str == IF h[self].attributes # <<>> /\ write_attributes
                    THEN AttrStr(h[self].attributes)
                    ELSE <<>>
    IN  core \o attr_str \o <<":">> \o NumStr(h[self].length)

\* C8: to_newick renders every internal node as '(' + its children's renderings
\* joined by ',' + ')' followed by the node's name, its attribute block, ':' and its
\* length, and every leaf as its name, its attribute block, ':' and its length.
C8_InternalNamesWritten ==
    phase = "text" => text = Rendering(nodes, Root, lastOp.wa)

\* C9: Tree.from_newick returns a tree only when the suffix left after parsing one
\* tree is exactly the terminator ';'.
C9_ConsumesWholeInput ==
    (phase = "parsed" /\ lastOp.kind = "from_newick" /\ parsed.ok) =>
        parsed.rest = <<";">>

\* the value of the attribute 'name' of the parsed node x, '' when it has none
NameAttr(x) ==
    IF AttrHas(parsed.h[x].attributes, NameKey)
    THEN ValueStr(AttrGet(parsed.h[x].attributes, NameKey))
    ELSE <<>>

\* C10: Tree.from_newick reproduces what the input writes; on test_newick's input:
\* the root has the children a and internal, internal has the children b and c, the
\* names are '', '', 'A', 'B', 'C', the attributes 'name' are root, internal, a, b, c
\* and the lengths are 0.0, 7.8, 1.2, 3.4, 5.6.
C10_TestNewickHolds ==
    (phase = "parsed" /\ lastOp.kind = "from_newick" /\ text = TestNewickText) =>
        /\ parsed.ok
        /\ Len(parsed.h[parsed.tree].children) = 2
        /\ LET root     == parsed.tree
               a        == parsed.h[root].children[1]
               internal == parsed.h[root].children[2]
           IN  /\ Len(parsed.h[internal].children) = 2
               /\ LET b == parsed.h[internal].children[1]
                      c == parsed.h[internal].children[2]
                  IN  /\ NameAttr(root) = <<"r", "o", "o", "t">>
                      /\ NameAttr(internal) = <<"i", "n", "t", "e", "r", "n", "a", "l">>
                      /\ NameAttr(a) = <<"a">>
                      /\ NameAttr(b) = <<"b">>
                      /\ NameAttr(c) = <<"c">>
                      /\ parsed.h[root].name = <<>>
                      /\ parsed.h[internal].name = <<>>
                      /\ parsed.h[a].name = <<"A">>
                      /\ parsed.h[b].name = <<"B">>
                      /\ parsed.h[c].name = <<"C">>
                      /\ NumEq(parsed.h[root].length, FloatNum(0, 0))
                      /\ NumEq(parsed.h[internal].length, FloatNum(78, 1))
                      /\ NumEq(parsed.h[a].length, FloatNum(12, 1))
                      /\ NumEq(parsed.h[b].length, FloatNum(34, 1))
                      /\ NumEq(parsed.h[c].length, FloatNum(56, 1))

\* both keys of the pair key1, key2 are among the attributes
HasPair(attrs, key) == AttrHas(attrs, key \o <<"1">>) /\ AttrHas(attrs, key \o <<"2">>)

HasMedianPair(attrs, key) ==
    /\ AttrHas(attrs, key \o <<"1">> \o MedianSuffix)
    /\ AttrHas(attrs, key \o <<"2">> \o MedianSuffix)

\* the location the attributes give, <<>> when they hold neither pair
PairLocation(attrs, key) ==
    IF HasPair(attrs, key)
    THEN <<AttrGet(attrs, key \o <<"1">>), AttrGet(attrs, key \o <<"2">>)>>
    ELSE IF HasMedianPair(attrs, key)
    THEN <<AttrGet(attrs, key \o <<"1">> \o MedianSuffix),
           AttrGet(attrs, key \o <<"2">> \o MedianSuffix)>>
    ELSE <<>>

\* the text of a tree with plain leaf names, attributes written, was parsed with
\* parse_tree, swap_xy either way
ParsedWithLocations ==
    /\ phase = "parsed"
    /\ lastOp.kind \in {"parse_tree", "parse_tree_swap_xy"}
    /\ lastOp.wa
    /\ PlainLeafNames(nodes)

\* C11: parsing a node whose attributes hold neither the pair location1/location2
\* nor the pair location1_median/location2_median leaves its location unset and
\* raises no error, with swap_xy false and with swap_xy true; when a pair is there,
\* swap_xy = true gives the location with x and y exchanged.
C11_LocationResolved ==
    ParsedWithLocations =>
        /\ parsed.ok
        /\ \A x \in Descendants(parsed.h, parsed.tree) :
               LET loc == PairLocation(parsed.h[x].attributes, LocationKey)
               IN  parsed.h[x].location =
                       IF loc # <<>> /\ lastOp.kind = "parse_tree_swap_xy"
                       THEN <<loc[2], loc[1]>>
                       ELSE loc

\* C12: starting from a tree whose inner nodes below the root all have two children
\* or more, after any sequence of remove_nodes_by_name calls that each return
\* normally, no node below the root has exactly one child, and no node below the
\* root that had children before a call is left in the tree without any.
C12_NoDegreeOnePersists ==
    AfterRemove =>
        /\ WellBranched(nodes)
        /\ \A x \in Reachable(nodes) \ {Root} :
               (x \in Reachable(pre) /\ ~is_leaf(pre, x)) => ~is_leaf(nodes, x)

AfterParseLength == phase = "parsed" /\ lastOp.kind = "parse_length"

AfterParseAttributes == phase = "parsed" /\ lastOp.kind = "parse_attributes"

\* the mapping returned holds the pairs of the case c and no other
SamePairs(attrs, c) ==
    /\ Len(attrs) = Cardinality(c.attrs)
    /\ {attrs[i] : i \in DOMAIN attrs} = c.attrs

\* what C13 says of parse_length
LengthConsumed ==
    AfterParseLength =>
        /\ \A c \in LengthCases :
               text = c.text =>
                   parsed.ok /\ parsed.length = c.length /\ parsed.rest = c.rest
        /\ StartsWith(text, <<";">>) =>
               parsed.ok /\ parsed.length = FloatNum(0, 0) /\ parsed.rest = text
        /\ (~StartsWith(text, <<";">>) /\ ~StartsWith(text, <<":">>)) => ~parsed.ok

\* what C13 says of parse_attributes, for the keys among `keys`
AttributesConsumed(keys) ==
    AfterParseAttributes =>
        /\ \A c \in AttrCases :
               (text = c.text /\ c.keys \subseteq keys) =>
                   SamePairs(parsed.attrs, c) /\ parsed.rest = c.rest
        /\ ~StartsWith(text, <<"[", "&">>) => parsed.attrs = <<>> /\ parsed.rest = text

\* C13, as claimed: parse_length on ':' + numeral + rest, rest beginning with ',' or
\* ')', returns the numeral's value and rest; on a text that begins with ';' it
\* returns 0.0 and the text; on any other start it fails.  parse_attributes on
\* '[&k1=v1,...,kn=vn]' + rest, keys distinct, values with no '=', ',' or ']' in them,
\* returns exactly those n pairs and rest; on a text that does not begin with '[&'
\* it returns the empty mapping and the text.
C13_ConsumeOwnConstruct == LengthConsumed /\ AttributesConsumed(Keys)

\* C13, amended: the same, for keys that have no '=', ',' or ']' in them either.
C13_ConsumeOwnConstructPlainKeys == LengthConsumed /\ AttributesConsumed(PlainKeys)

\* C13's case: parse_attributes was applied to a block of two pairs with plain keys,
\* a numeral and a word for values, followed by a rest with '=' and ']' in it, and
\* returned the two pairs and the rest
C13_Witness ==
    /\ AfterParseAttributes
    /\ \E c \in AttrCases :
           /\ text = c.text /\ c.keys = PlainKeys
           /\ \E p, q \in c.attrs : p.v.num /\ ~q.v.num
           /\ Has(c.rest, "=") /\ Has(c.rest, "]")
           /\ SamePairs(parsed.attrs, c) /\ parsed.rest = c.rest

====
